---- MODULE Spec2Model ----
(***************************************************************************)
(* Model of the /generar pipeline of app.py: upload, BOM inference,        *)
(* vector and raster emission, manual generation, packaging and cleanup,   *)
(* over a filesystem shared by all request threads.                        *)
(*                                                                         *)
(* Text values (component names, file names, outline descriptors) are      *)
(* sequences of one-character strings, so that secure_filename, str.strip  *)
(* and str.replace are computed character by character.                    *)
(***************************************************************************)
EXTENDS Integers, Sequences, FiniteSets, TLC

\* Python None; a tuple, so that it compares with every text and path value
NULL == <<"None">>

(* ------------------------------------------------------------------ *)
(* Bounds of the model                                                  *)
(* ------------------------------------------------------------------ *)
\* longest BOM the AI adapter returns in the pipeline specifications
MaxBom == 2
\* longest outline descriptor enumerated by the classification specification
MaxPathLen == 12

(* ------------------------------------------------------------------ *)
(* Text helpers                                                         *)
(* ------------------------------------------------------------------ *)
Whitespace == {" ", "\t"}

Alnum ==
    {"A","B","C","D","E","F","G","H","I","J","K","L","M","N","O","P","Q","R",
     "S","T","U","V","W","X","Y","Z",
     "a","b","c","d","e","f","g","h","i","j","k","l","m","n","o","p","q","r",
     "s","t","u","v","w","x","y","z",
     "0","1","2","3","4","5","6","7","8","9"}

\* the complement of werkzeug's _filename_ascii_strip_re, [^A-Za-z0-9_.-]
FilenameChars == Alnum \cup {"_", ".", "-"}

RECURSIVE LStrip(_, _)
LStrip(s, cs) ==
    IF s = <<>> THEN <<>>
    ELSE IF Head(s) \in cs THEN LStrip(Tail(s), cs) ELSE s

RECURSIVE RStrip(_, _)
RStrip(s, cs) ==
    IF s = <<>> THEN <<>>
    ELSE IF s[Len(s)] \in cs THEN RStrip(SubSeq(s, 1, Len(s) - 1), cs) ELSE s

\* str.strip(chars)
StripChars(s, cs) == RStrip(LStrip(s, cs), cs)

\* str.strip(): leading and trailing whitespace removed
Strip(s) == StripChars(s, Whitespace)

\* str.replace of a single character by another
RECURSIVE ReplaceChar(_, _, _)
ReplaceChar(s, old, new) ==
    IF s = <<>> THEN <<>>
    ELSE <<IF Head(s) = old THEN new ELSE Head(s)>> \o ReplaceChar(Tail(s), old, new)

IsPrefix(p, s) == Len(p) <= Len(s) /\ SubSeq(s, 1, Len(p)) = p

\* str.replace(old, new): every non-overlapping occurrence, left to right
RECURSIVE Replace(_, _, _)
Replace(s, old, new) ==
    IF s = <<>> THEN <<>>
    ELSE IF IsPrefix(old, s)
         THEN new \o Replace(SubSeq(s, Len(old) + 1, Len(s)), old, new)
         ELSE <<Head(s)>> \o Replace(Tail(s), old, new)

\* the first whitespace-delimited word of s (s has no leading whitespace)
RECURSIVE FirstWord(_)
FirstWord(s) ==
    IF s = <<>> \/ Head(s) \in Whitespace THEN <<>>
    ELSE <<Head(s)>> \o FirstWord(Tail(s))

\* "_".join(s.split())
RECURSIVE JoinSplit(_)
JoinSplit(s) ==
    LET t == LStrip(s, Whitespace)
        w == FirstWord(t)
        rest == LStrip(SubSeq(t, Len(w) + 1, Len(t)), Whitespace)
    IN IF t = <<>> THEN <<>>
       ELSE IF rest = <<>> THEN w
       ELSE w \o <<"_">> \o JoinSplit(rest)

\* re.sub of every character outside cs by ""
RECURSIVE Keep(_, _)
Keep(s, cs) ==
    IF s = <<>> THEN <<>>
    ELSE (IF Head(s) \in cs THEN <<Head(s)>> ELSE <<>>) \o Keep(Tail(s), cs)

\* werkzeug.utils.secure_filename on ASCII input, POSIX path separator
secure_filename(s) ==
    StripChars(Keep(JoinSplit(ReplaceChar(s, "/", " ")), FilenameChars), {".", "_"})

\* Python truthiness of a JSON null or string
Truthy(x) == x # NULL /\ x # <<>>

\* str() of a JSON string is the string itself
Str(x) == x

Rango(s) == {s[i] : i \in 1..Len(s)}

(* ------------------------------------------------------------------ *)
(* Paths and directories (app.py lines 35-48, 160, 220)                 *)
(* ------------------------------------------------------------------ *)
UPLOAD_FOLDER == "uploads"
OUTPUT_FOLDER == "outputs"
TEMP_FOLDER == "outputs/temp_images"
svg_folder == "outputs/planos_svg"

\* os.path.join(dir, name): a path is the pair <<directory, file name>>
Join(d, name) == <<d, name>>
\* os.path.basename
Basename(p) == p[2]

DocName == <<"M","a","n","u","a","l","_","P","r","o","d","u","c","c","i","o","n",".","d","o","c","x">>
SvgExt == <<".","s","v","g">>
PngExt == <<".","p","n","g">>

(* ------------------------------------------------------------------ *)
(* Component records                                                    *)
(* ------------------------------------------------------------------ *)
Componente(nombre, material, dims, cantidad, notas, path) ==
    [nombre |-> nombre, material |-> material, dimensiones_cm |-> dims,
     cantidad_unidades |-> cantidad, notas_fabricacion |-> notas,
     svg_path_d |-> path, png_path |-> NULL]

\* the record returned when no credential is configured (line 109)
ErrorConfig ==
    <<Componente(<<"E","r","r","o","r"," ","C","o","n","f","i","g">>, "N/A",
                 <<10, 10, 10>>, 0, "Configure la API KEY", NULL)>>

\* the record returned when the AI call raises (line 142)
MuroBaseFallback ==
    <<Componente(<<"M","u","r","o"," ","B","a","s","e"," ","(","F","a","l","l","b","a","c","k",")">>,
                 "MDF", <<100, 200, 5>>, 1, "Generado por error de conexion IA", NULL)>>

(* ------------------------------------------------------------------ *)
(* Geometry: classification and drawing contents                        *)
(* ------------------------------------------------------------------ *)
\* line 183: the vector emitter's test for an irregular outline
EsIrregularSvg(path_data) == Truthy(path_data) /\ Len(Strip(Str(path_data))) > 10

\* the raster test with the threshold off by one
EsIrregularPngMut(path_data) == Truthy(path_data) /\ Len(Strip(Str(path_data))) >= 10

\* line 79: the raster emitter's test for an irregular outline
EsIrregularPng(path_data) == Truthy(path_data) /\ Len(Strip(Str(path_data))) > 10

\* lines 173-174: 1 cm = 10 drawing units
Dibujo(cm) == cm * 10

\* lines 179-196: what the vector file of a component holds
SvgContenido(comp, w_draw, h_draw) ==
    [nombre |-> comp.nombre,
     forma |-> IF EsIrregularSvg(comp.svg_path_d) THEN "IRREGULAR" ELSE "RECTANGULAR",
     w |-> w_draw, h |-> h_draw,
     lienzo |-> <<w_draw + 100, h_draw + 100>>]

\* lines 62-95: what the raster preview holds
guardar_path_como_png(path_data, w_draw, h_draw) ==
    [forma |-> IF EsIrregularPng(path_data) THEN "IRREGULAR" ELSE "RECTANGULAR",
     w |-> w_draw, h |-> h_draw]

\* line 198 and line 300
SvgFname(comp) == secure_filename(comp.nombre) \o SvgExt
\* line 204
PngFname(svg_fname) == Replace(svg_fname, SvgExt, PngExt)

\* lines 258-303: the section of the manual for one component; the preview
\* is embedded only when png_path is set and the file exists
Seccion(comp, existe) ==
    [nombre |-> comp.nombre,
     dibujo |-> comp.png_path # NULL /\ existe,
     material |-> comp.material,
     medidas |-> comp.dimensiones_cm,
     cantidad |-> comp.cantidad_unidades,
     nota |-> comp.notas_fabricacion,
     svg |-> SvgFname(comp)]

(* ------------------------------------------------------------------ *)
(* Inputs                                                               *)
(* ------------------------------------------------------------------ *)
\* request threads of the server; the sequential specifications run h1 only
Hilos == {"h1", "h2"}

\* GEMINI_API_KEY (line 30): unset, empty, or set
Claves == {NULL, <<>>, <<"k">>}

\* component names: "A B" and "A/B" share a safe file name, "/" has an empty one
Nombres == {<<"A"," ","B">>, <<"A","/","B">>, <<"/">>}

\* outline descriptors: null (rectangle) or an 11-character path
Trazados_Irregular == <<"M","0"," ","0"," ","L","9"," ","9"," ","Z">>
Trazados == {NULL, Trazados_Irregular}

Piezas == {Componente(n, "MDF", <<100, 50, 2>>, 1, "", p) : n \in Nombres, p \in Trazados}

\* the BOMs the AI service may return: names unique within a job
Boms ==
    UNION {{b \in [1..n -> Piezas] :
              \A i, j \in 1..n : i # j => b[i].nombre # b[j].nombre} : n \in 0..MaxBom}

RenderJpg == <<"r",".","j","p","g">>

Carga(tiene, filename, valida, data, bom) ==
    [tiene_render |-> tiene, filename |-> filename, imagen_valida |-> valida,
     data |-> data, bom |-> bom]

UnaPieza == <<Componente(<<"A">>, "MDF", <<100, 50, 2>>, 1, "", NULL)>>

\* the POST /generar payloads: a valid payload for every BOM, and one payload
\* for each malformed part (no render field, an empty safe file name, a
\* corrupt image, data that is not JSON, data without its keys)
Entradas ==
    {Carga(TRUE, RenderJpg, TRUE, "ok", b) : b \in Boms}
    \cup {Carga(FALSE, RenderJpg, TRUE, "ok", UnaPieza),
          Carga(TRUE, <<"/">>, TRUE, "ok", UnaPieza),
          Carga(TRUE, RenderJpg, FALSE, "ok", UnaPieza),
          Carga(TRUE, RenderJpg, TRUE, "malformado", UnaPieza),
          Carga(TRUE, RenderJpg, TRUE, "incompleto", UnaPieza)}

(* ------------------------------------------------------------------ *)
(* State                                                                *)
(* ------------------------------------------------------------------ *)
VARIABLES
    apiKey,     \* GEMINI_API_KEY, read once at import
    entrada,    \* the payload each client thread submits
    dirs,       \* the directories that exist
    disk,       \* the files that exist: path -> contents
    req,        \* per thread: the locals of generar_manual and its callees
    anterior    \* <<>>, or <<the summary of the previous request>>

vars == <<apiKey, entrada, dirs, disk, req, anterior>>

SinRespuesta == [tipo |-> "ninguna", status |-> 0, message |-> <<>>]

\* lines 316-319 and the locals of the callees, before they are assigned
Frame0 ==
    [pc |-> "idle",
     path_render |-> NULL, doc_path |-> NULL,
     svg_files |-> <<>>, temp_png_files |-> <<>>, docx_png_files |-> <<>>,
     temp_files |-> <<>>,
     componentes |-> <<>>, i |-> 1,
     uploaded_file |-> FALSE, ia_falla |-> "ninguna", retorno |-> <<>>,
     llamadas |-> [upload |-> 0, generate |-> 0, delete |-> 0],
     respuesta |-> SinRespuesta, zip |-> <<>>,
     limpio |-> TRUE, victima |-> FALSE, emitidos |-> {}, manual |-> <<>>]

\* lines 46-48: the three directories made at import
DirsInicio == {UPLOAD_FOLDER, OUTPUT_FOLDER, TEMP_FOLDER}

Init ==
    /\ apiKey \in Claves
    /\ entrada \in {[r \in Hilos |-> e] : e \in Entradas}
    /\ dirs = DirsInicio
    /\ disk = <<>>
    /\ req = [r \in Hilos |-> Frame0]
    /\ anterior = <<>>

(* ------------------------------------------------------------------ *)
(* Filesystem                                                           *)
(* ------------------------------------------------------------------ *)
\* a disk holding the single file p
Escrito0(p, c) == [q \in {p} |-> c]

Exists(p) == p \in DOMAIN disk

Escrito(p, c) == [q \in DOMAIN disk \cup {p} |-> IF q = p THEN c ELSE disk[q]]

Quitados(ps) == [q \in DOMAIN disk \ ps |-> disk[q]]

EnDir(d) == {q \in DOMAIN disk : q[1] = d}

\* the outcomes of a filesystem or library call: it succeeds, the environment
\* makes it raise, or it cannot succeed in this state
Resultados(puede) == IF puede THEN {"ok", "fallo"} ELSE {"error"}

\* the stages in which a request holds files it has written and not yet packaged
EnVuelo == {"svg", "png", "word", "zip"}

\* frame fr after another thread removed the paths ps
Marcar(fr, ps) ==
    IF fr.pc \in EnVuelo
       /\ (Rango(fr.svg_files) \cup Rango(fr.temp_png_files)) \cap ps # {}
    THEN [fr EXCEPT !.victima = TRUE]
    ELSE fr

\* thread r moves to frame fr, removing the paths ps
Paso(r, fr, ps) == req' = [q \in Hilos |-> IF q = r THEN fr ELSE Marcar(req[q], ps)]

\* lines 355-357: the except clause, then the finally block
Fallar(fr, desc, res) ==
    [fr EXCEPT !.pc = "limpiar", !.i = 1,
               !.respuesta = [tipo |-> "json", status |-> 500,
                              message |-> <<"Error interno: ", desc>>],
               !.limpio = @ /\ res # "fallo"]

(* ------------------------------------------------------------------ *)
(* generar_manual: request entry and upload (lines 314-327)             *)
(* ------------------------------------------------------------------ *)
\* what a finished request did: its adapter result, its response, the
\* vector files it wrote and the manual it saved
Resumen(fr) ==
    [limpio |-> fr.limpio,
     bom |-> [k \in 1..Len(fr.componentes) |-> [fr.componentes[k] EXCEPT !.png_path = NULL]],
     tipo |-> fr.respuesta.tipo,
     svgs |-> fr.emitidos,
     manual |-> fr.manual]

\* what is kept of a request into which the environment injected a fault
SinResumen == [limpio |-> FALSE, bom |-> <<>>, tipo |-> "ninguna", svgs |-> {}, manual |-> <<>>]

\* a client's first POST /generar
Recibir(r) ==
    /\ req[r].pc = "idle"
    /\ Paso(r, [Frame0 EXCEPT !.pc = "cargar"], {})
    /\ UNCHANGED <<apiKey, entrada, dirs, disk, anterior>>

\* the client posts the same payload again after the previous response
Reenviar(r) ==
    /\ req[r].pc = "fin"
    /\ anterior' = <<IF req[r].limpio THEN Resumen(req[r]) ELSE SinResumen>>
    /\ Paso(r, [Frame0 EXCEPT !.pc = "cargar"], {})
    /\ UNCHANGED <<apiKey, entrada, dirs, disk>>

\* lines 323-327
Cargar(r) ==
    /\ req[r].pc = "cargar"
    /\ LET e == entrada[r]
           fr == req[r]
           filename == secure_filename(e.filename)
           path == Join(UPLOAD_FOLDER, filename)
       IN IF ~e.tiene_render
          THEN /\ Paso(r, Fallar(fr, "BadRequestKeyError", "error"), {})
               /\ UNCHANGED disk
          ELSE \E res \in Resultados(filename # <<>> /\ UPLOAD_FOLDER \in dirs) :
                 LET f1 == [fr EXCEPT !.path_render = path]
                 IN IF res # "ok"
                    THEN /\ Paso(r, Fallar(f1, "OSError", res), {})
                         /\ UNCHANGED disk
                    ELSE /\ disk' = Escrito(path, [imagen_valida |-> e.imagen_valida])
                         /\ IF e.data = "malformado"
                            THEN Paso(r, Fallar(f1, "JSONDecodeError", "error"), {})
                            ELSE Paso(r, [f1 EXCEPT !.pc = "analizar"], {})
    /\ UNCHANGED <<apiKey, entrada, dirs, anterior>>

(* ------------------------------------------------------------------ *)
(* analizar_y_generar_desglose (lines 101-150)                          *)
(* ------------------------------------------------------------------ *)
\* the credential test written as "is None": an empty key passes it
SinCredencialMut(k) == k = NULL

\* line 107
SinCredencial(k) == ~Truthy(k)

\* the step of the try block that raises, given what the service does (f) and
\* the request's data: the prompt needs data's keys (lines 125-126)
FallasIA == {"ninguna", "client", "upload", "generate", "parse"}
FallaEfectiva(f, data) ==
    IF f \in {"client", "upload"} THEN f
    ELSE IF data = "incompleto" THEN "prompt"
    ELSE f

\* line 138 on success, line 142 on any exception
RetornoIA(falla, bom) == IF falla = "ninguna" THEN bom ELSE MuroBaseFallback

\* lines 105-142: the credential test and the try block, up to its return
analizar_y_generar_desglose(r) ==
    /\ req[r].pc = "analizar"
    /\ LET fr == req[r]
       IN IF SinCredencial(apiKey)
          THEN Paso(r, [fr EXCEPT !.pc = "planos", !.componentes = ErrorConfig], {})
          ELSE \E f \in FallasIA :
                 LET ef == FallaEfectiva(f, entrada[r].data)
                 IN Paso(r, [fr EXCEPT
                               !.pc = "ia_finally",
                               !.ia_falla = ef,
                               !.uploaded_file = ef \notin {"client", "upload"},
                               !.llamadas = [upload |-> IF ef = "client" THEN 0 ELSE 1,
                                             generate |-> IF ef \in {"ninguna", "generate", "parse"}
                                                          THEN 1 ELSE 0,
                                             delete |-> 0],
                               !.retorno = RetornoIA(ef, entrada[r].bom),
                               !.limpio = @ /\ ef \in {"ninguna", "prompt"}], {})
    /\ UNCHANGED <<apiKey, entrada, dirs, disk, anterior>>

\* the deletion placed at the end of the try block: skipped when a step raised
BorraRemotoMut(uploaded_file, falla) == uploaded_file /\ falla = "ninguna"

\* line 145: whether the finally block attempts the remote deletion
BorraRemoto(uploaded_file, falla) == uploaded_file

\* lines 144-150: the finally block, then the return to generar_manual;
\* llamadas.delete counts the deletion attempts (lines 146-148), delOk is
\* whether the attempt succeeded, and a failing attempt is swallowed
AnalizarFinally(r) ==
    /\ req[r].pc = "ia_finally"
    /\ LET fr == req[r]
           f1 == [fr EXCEPT !.pc = "planos", !.componentes = fr.retorno,
                            !.uploaded_file = FALSE, !.ia_falla = "ninguna",
                            !.retorno = <<>>]
       IN IF BorraRemoto(fr.uploaded_file, fr.ia_falla)
          THEN \E delOk \in BOOLEAN :
                 Paso(r, [f1 EXCEPT !.llamadas.delete = @ + 1,
                                    !.limpio = @ /\ delOk], {})
          ELSE Paso(r, f1, {})
    /\ UNCHANGED <<apiKey, entrada, dirs, disk, anterior>>

(* ------------------------------------------------------------------ *)
(* generar_planos_vectoriales_svg (lines 156-213)                       *)
(* ------------------------------------------------------------------ *)
\* lines 160-167: the vector folder is removed if present and made again
generar_planos_vectoriales_svg(r) ==
    /\ req[r].pc = "planos"
    /\ LET fr == req[r]
           f1 == [fr EXCEPT !.pc = IF fr.componentes = <<>> THEN "word" ELSE "svg",
                            !.i = 1, !.svg_files = <<>>, !.temp_png_files = <<>>]
       IN IF svg_folder \in dirs
          THEN \E res \in Resultados(TRUE) :
                 IF res = "ok"
                 THEN /\ disk' = Quitados(EnDir(svg_folder))
                      /\ dirs' = dirs \cup {svg_folder}
                      /\ Paso(r, f1, EnDir(svg_folder))
                 ELSE /\ Paso(r, Fallar(fr, "OSError", res), {})
                      /\ UNCHANGED <<dirs, disk>>
          ELSE /\ dirs' = dirs \cup {svg_folder}
               /\ Paso(r, f1, {})
               /\ UNCHANGED disk
    /\ UNCHANGED <<apiKey, entrada, anterior>>

\* the emission step with the folder re-created inside the loop: each
\* iteration removes the vector files of the iterations before it
EscribirSvgMut(r) ==
    /\ req[r].pc = "svg"
    /\ LET fr == req[r]
           comp == fr.componentes[fr.i]
           svg_path == Join(svg_folder, SvgFname(comp))
           dwg == SvgContenido(comp, Dibujo(comp.dimensiones_cm[1]), Dibujo(comp.dimensiones_cm[2]))
       IN /\ disk' = [q \in (DOMAIN disk \ EnDir(svg_folder)) \cup {svg_path} |->
                        IF q = svg_path THEN dwg ELSE disk[q]]
          /\ dirs' = dirs \cup {svg_folder}
          /\ Paso(r, [fr EXCEPT !.pc = "png",
                                !.svg_files = Append(@, svg_path),
                                !.emitidos = @ \cup {[path |-> svg_path, contenido |-> dwg]}],
                  EnDir(svg_folder))
    /\ UNCHANGED <<apiKey, entrada, anterior>>

\* lines 169-201: the vector file of component i
EscribirSvg(r) ==
    /\ req[r].pc = "svg"
    /\ LET fr == req[r]
           comp == fr.componentes[fr.i]
           w_draw == Dibujo(comp.dimensiones_cm[1])
           h_draw == Dibujo(comp.dimensiones_cm[2])
           svg_path == Join(svg_folder, SvgFname(comp))
           dwg == SvgContenido(comp, w_draw, h_draw)
       IN \E res \in Resultados(svg_folder \in dirs) :
            IF res = "ok"
            THEN /\ disk' = Escrito(svg_path, dwg)
                 /\ Paso(r, [fr EXCEPT !.pc = "png",
                                       !.svg_files = Append(@, svg_path),
                                       !.emitidos = @ \cup {[path |-> svg_path, contenido |-> dwg]}],
                         {})
            ELSE /\ Paso(r, Fallar(fr, "OSError", res), {})
                 /\ UNCHANGED disk
    /\ UNCHANGED <<apiKey, entrada, dirs, anterior>>

\* lines 203-209: the raster preview of component i
EscribirPng(r) ==
    /\ req[r].pc = "png"
    /\ LET fr == req[r]
           comp == fr.componentes[fr.i]
           w_draw == Dibujo(comp.dimensiones_cm[1])
           h_draw == Dibujo(comp.dimensiones_cm[2])
           png_path == Join(TEMP_FOLDER, PngFname(SvgFname(comp)))
       IN \E res \in Resultados(TEMP_FOLDER \in dirs) :
            IF res = "ok"
            THEN /\ disk' = Escrito(png_path,
                                    guardar_path_como_png(comp.svg_path_d, w_draw, h_draw))
                 /\ Paso(r, [fr EXCEPT !.pc = IF fr.i = Len(fr.componentes) THEN "word" ELSE "svg",
                                       !.i = @ + 1,
                                       !.temp_png_files = Append(@, png_path),
                                       !.componentes[fr.i].png_path = png_path],
                         {})
            ELSE /\ Paso(r, Fallar(fr, "FileNotFoundError", res), {})
                 /\ UNCHANGED disk
    /\ UNCHANGED <<apiKey, entrada, dirs, anterior>>

(* ------------------------------------------------------------------ *)
(* generar_manual_word (lines 219-307)                                  *)
(* ------------------------------------------------------------------ *)
\* the previews found on disk, in component order (lines 270-274)
RECURSIVE Embebidos(_, _)
Embebidos(comps, d) ==
    IF comps = <<>> THEN <<>>
    ELSE (IF Head(comps).png_path # NULL /\ Head(comps).png_path \in d
          THEN <<Head(comps).png_path>> ELSE <<>>) \o Embebidos(Tail(comps), d)

generar_manual_word(r) ==
    /\ req[r].pc = "word"
    /\ LET fr == req[r]
           path == Join(OUTPUT_FOLDER, DocName)
           conRender == Exists(fr.path_render)
           documento ==
               [render |-> conRender,
                secciones |-> [k \in 1..Len(fr.componentes) |->
                                 Seccion(fr.componentes[k],
                                         fr.componentes[k].png_path \in DOMAIN disk)]]
       IN IF conRender /\ ~disk[fr.path_render].imagen_valida
          THEN /\ Paso(r, Fallar(fr, "UnrecognizedImageError", "error"), {})
               /\ UNCHANGED disk
          ELSE IF entrada[r].data = "incompleto"
          THEN /\ Paso(r, Fallar(fr, "KeyError", "error"), {})
               /\ UNCHANGED disk
          ELSE \E res \in Resultados(OUTPUT_FOLDER \in dirs) :
                 IF res = "ok"
                 THEN /\ disk' = Escrito(path, documento)
                      /\ Paso(r, [fr EXCEPT !.pc = "zip",
                                            !.doc_path = path,
                                            !.docx_png_files = Embebidos(fr.componentes, DOMAIN disk),
                                            !.manual = <<documento>>], {})
                 ELSE /\ Paso(r, Fallar(fr, "OSError", res), {})
                      /\ UNCHANGED disk
    /\ UNCHANGED <<apiKey, entrada, dirs, anterior>>

(* ------------------------------------------------------------------ *)
(* generar_manual: packaging (lines 335-353)                            *)
(* ------------------------------------------------------------------ *)
ManualArc == <<"Manual_Produccion.docx">>
RenderArc == <<"Render_Original.jpg">>

\* lines 340-341: one archive entry per element of svg_files
RECURSIVE EntradasSvg(_, _)
EntradasSvg(svgs, d) ==
    IF svgs = <<>> THEN <<>>
    ELSE <<[arc |-> <<"Planos_Corte/", Basename(Head(svgs))>>, contenido |-> d[Head(svgs)]]>>
         \o EntradasSvg(Tail(svgs), d)

\* line 346
TempFiles(path_render, doc_path, svg_files, temp_png_files, docx_png_files) ==
    <<path_render, doc_path>> \o svg_files \o temp_png_files \o docx_png_files

Empaquetar(r) ==
    /\ req[r].pc = "zip"
    /\ LET fr == req[r]
           presentes == /\ Exists(fr.doc_path)
                        /\ Exists(fr.path_render)
                        /\ \A k \in 1..Len(fr.svg_files) : Exists(fr.svg_files[k])
       IN \E res \in Resultados(presentes) :
            IF res = "ok"
            THEN Paso(r, [fr EXCEPT
                            !.pc = "limpiar", !.i = 1,
                            !.zip = <<[arc |-> ManualArc, contenido |-> disk[fr.doc_path]],
                                      [arc |-> RenderArc, contenido |-> disk[fr.path_render]]>>
                                    \o EntradasSvg(fr.svg_files, disk),
                            !.temp_files = TempFiles(fr.path_render, fr.doc_path, fr.svg_files,
                                                     fr.temp_png_files, fr.docx_png_files),
                            !.respuesta = [tipo |-> "zip", status |-> 200,
                                           message |-> <<"Proyecto_Produccion.zip">>]], {})
            ELSE Paso(r, Fallar(fr, "FileNotFoundError", res), {})
    /\ UNCHANGED <<apiKey, entrada, dirs, disk, anterior>>

(* ------------------------------------------------------------------ *)
(* generar_manual: the finally block (lines 359-372)                    *)
(* ------------------------------------------------------------------ *)
\* an exception that leaves the finally block replaces the pending response
NoControlada(fr, desc) ==
    [fr EXCEPT !.pc = "fin", !.limpio = FALSE,
               !.respuesta = [tipo |-> "unhandled", status |-> 500, message |-> <<desc>>]]

\* lines 362-365: one iteration of the loop over temp_files; a failing
\* os.remove is swallowed
LimpiarArchivo(r) ==
    /\ req[r].pc = "limpiar"
    /\ LET fr == req[r]
       IN IF fr.i > Len(fr.temp_files)
          THEN /\ Paso(r, [fr EXCEPT !.pc = "rm_svg"], {})
               /\ UNCHANGED disk
          ELSE LET f == fr.temp_files[fr.i]
               IN IF Exists(f)
                  THEN \E res \in Resultados(TRUE) :
                         IF res = "ok"
                         THEN /\ disk' = Quitados({f})
                              /\ Paso(r, [fr EXCEPT !.i = @ + 1], {f})
                         ELSE /\ Paso(r, [fr EXCEPT !.i = @ + 1, !.limpio = FALSE], {})
                              /\ UNCHANGED disk
                  ELSE /\ Paso(r, [fr EXCEPT !.i = @ + 1], {})
                       /\ UNCHANGED disk
    /\ UNCHANGED <<apiKey, entrada, dirs, anterior>>

\* shutil.rmtree(d) guarded by os.path.exists(d), as at lines 367-368 and
\* 369-370; on success the thread goes to stage sig
RmTree(r, d, sig) ==
    LET fr == req[r]
    IN IF d \in dirs
       THEN \E res \in Resultados(TRUE) :
              IF res = "ok"
              THEN /\ dirs' = dirs \ {d}
                   /\ disk' = Quitados(EnDir(d))
                   /\ Paso(r, [fr EXCEPT !.pc = sig], EnDir(d))
              ELSE /\ Paso(r, NoControlada(fr, "OSError"), {})
                   /\ UNCHANGED <<dirs, disk>>
       ELSE /\ Paso(r, [fr EXCEPT !.pc = sig], {})
            /\ UNCHANGED <<dirs, disk>>

\* lines 367-368
LimpiarSvg(r) ==
    /\ req[r].pc = "rm_svg"
    /\ RmTree(r, svg_folder, "rm_temp")
    /\ UNCHANGED <<apiKey, entrada, anterior>>

\* lines 369-370
LimpiarTemp(r) ==
    /\ req[r].pc = "rm_temp"
    /\ RmTree(r, TEMP_FOLDER, "fin")
    /\ UNCHANGED <<apiKey, entrada, anterior>>

(* ------------------------------------------------------------------ *)
(* Specifications                                                       *)
(* ------------------------------------------------------------------ *)
Etapa(r) ==
    \/ Cargar(r)
    \/ analizar_y_generar_desglose(r)
    \/ AnalizarFinally(r)
    \/ generar_planos_vectoriales_svg(r)
    \/ EscribirSvg(r)
    \/ EscribirPng(r)
    \/ generar_manual_word(r)
    \/ Empaquetar(r)
    \/ LimpiarArchivo(r)
    \/ LimpiarSvg(r)
    \/ LimpiarTemp(r)

\* one client: requests are served one after another
Next ==
    \/ Recibir("h1")
    \/ Reenviar("h1")
    \/ Etapa("h1")

Spec == Init /\ [][Next]_vars

(* ------------------------------------------------------------------ *)
(* Two concurrent requests on a fresh server                            *)
(* ------------------------------------------------------------------ *)
\* h1 posts a render whose BOM has two pieces, h2 one whose BOM has one piece;
\* both BOMs name a piece "A", so both threads write A.svg and A.png
DosPiezas ==
    <<Componente(<<"A">>, "MDF", <<100, 50, 2>>, 1, "", Trazados_Irregular),
      Componente(<<"/">>, "MDF", <<100, 50, 2>>, 1, "", NULL)>>

InitConc ==
    /\ apiKey = <<"k">>
    /\ entrada = [r \in Hilos |-> IF r = "h1" THEN Carga(TRUE, RenderJpg, TRUE, "ok", DosPiezas)
                                               ELSE Carga(TRUE, RenderJpg, TRUE, "ok", UnaPieza)]
    /\ dirs = DirsInicio
    /\ disk = <<>>
    /\ req = [r \in Hilos |-> Frame0]
    /\ anterior = <<>>

\* the threads of the server interleave at every filesystem call
NextConc ==
    \/ \E r \in Hilos : Recibir(r)
    \/ \E r \in Hilos : Etapa(r)

SpecConc == InitConc /\ [][NextConc]_vars

(* ------------------------------------------------------------------ *)
(* The two emitters on every outline descriptor                         *)
(* ------------------------------------------------------------------ *)
\* every descriptor of up to MaxPathLen characters over a blank and a letter
Descriptores == {NULL} \cup UNION {[1..n -> {" ", "M"}] : n \in 0..MaxPathLen}

DimsClasif == {<<100, 50, 2>>, <<3, 7, 1>>}

PiezasClasif == {Componente(<<"A">>, "MDF", d, 1, "", p) : d \in DimsClasif, p \in Descriptores}

\* a request that has reached the emission loop with a one-piece BOM
InitClasif ==
    /\ apiKey = <<"k">>
    /\ \E c \in PiezasClasif :
         /\ entrada = [r \in Hilos |-> Carga(TRUE, RenderJpg, TRUE, "ok", <<c>>)]
         /\ req = [r \in Hilos |->
                     IF r = "h1"
                     THEN [Frame0 EXCEPT !.pc = "svg",
                                         !.path_render = Join(UPLOAD_FOLDER, RenderJpg),
                                         !.componentes = <<c>>,
                                         !.llamadas = [upload |-> 1, generate |-> 1, delete |-> 1]]
                     ELSE Frame0]
    /\ dirs = DirsInicio \cup {svg_folder}
    /\ disk = Escrito0(Join(UPLOAD_FOLDER, RenderJpg), [imagen_valida |-> TRUE])
    /\ anterior = <<>>

NextClasif ==
    \/ EscribirSvg("h1")
    \/ EscribirPng("h1")

SpecClasif == InitClasif /\ [][NextClasif]_vars

(* ------------------------------------------------------------------ *)
(* Properties                                                           *)
(* ------------------------------------------------------------------ *)
Etapas_Limpieza == {"limpiar", "rm_svg", "rm_temp"}

\* the paths a request created: the saved render, the manual, the vector
\* files and the raster previews
Creadas(fr) ==
    ({fr.path_render, fr.doc_path} \ {NULL})
    \cup Rango(fr.svg_files) \cup Rango(fr.temp_png_files)

\* C1: after any request into which the environment injected no fault,
\* whether it returned the ZIP or failed at some stage, every path the
\* request created is gone from disk and neither scratch directory exists.
C1_TodoBorrado ==
    \A r \in Hilos :
      (req[r].pc = "fin" /\ req[r].limpio) =>
        /\ \A p \in Creadas(req[r]) : ~Exists(p)
        /\ svg_folder \notin dirs
        /\ TEMP_FOLDER \notin dirs

\* C2: a request that repeats the previous one (same payload, same BOM from
\* the adapter, no injected fault in either) ends as the previous one did:
\* same response kind, same vector files written, same manual contents.
C2_Idempotente ==
    \A r \in Hilos :
      (/\ req[r].pc = "fin"
       /\ req[r].limpio
       /\ anterior # <<>>
       /\ anterior[1].limpio
       /\ anterior[1].bom = Resumen(req[r]).bom) =>
        /\ Resumen(req[r]).tipo = anterior[1].tipo
        /\ Resumen(req[r]).svgs = anterior[1].svgs
        /\ Resumen(req[r]).manual = anterior[1].manual

\* C3: every finished request answered with the ZIP download or with the
\* JSON body {"message": "Error interno: ..."} and status 500.
C3_DosResultados ==
    \A r \in Hilos :
      req[r].pc = "fin" =>
        \/ req[r].respuesta.tipo = "zip" /\ req[r].respuesta.status = 200
        \/ /\ req[r].respuesta.tipo = "json"
           /\ req[r].respuesta.status = 500
           /\ req[r].respuesta.message[1] = "Error interno: "

\* C4: no step of the finally block changes the response chosen by the
\* try/except part, and after the removal of outputs/planos_svg, failed or
\* not, the removal of outputs/temp_images is still attempted.
C4_LimpiezaSilenciosa ==
    [][\A r \in Hilos :
         req[r].pc \in Etapas_Limpieza =>
           /\ req'[r].respuesta = req[r].respuesta
           /\ (req[r].pc = "rm_svg" => req'[r].pc \in {"rm_svg", "rm_temp"})]_vars

EsErrorConfig(c) ==
    /\ Len(c) = 1
    /\ c[1].nombre = <<"E","r","r","o","r"," ","C","o","n","f","i","g">>
    /\ c[1].cantidad_unidades = 0

\* C5: with no credential configured (unset or empty), no step of a request
\* makes an upload, generate or delete call, and the adapter step hands
\* exactly the configuration-error sentinel (quantity 0) to the next stage,
\* the vector emission, instead of aborting the request.
C5_SinCredencial ==
    [][\A r \in Hilos :
         (apiKey = NULL \/ apiKey = <<>>) =>
           /\ req'[r].llamadas = [upload |-> 0, generate |-> 0, delete |-> 0]
           /\ req'[r].pc # "ia_finally"
           /\ (req[r].pc = "analizar" /\ req'[r].pc # "analizar" =>
                 /\ req'[r].pc = "planos"
                 /\ EsErrorConfig(req'[r].componentes))]_vars

\* C5 witness: without a credential a request ran to its end and returned
\* the ZIP built from the sentinel
C5_Witness ==
    \E r \in Hilos :
      /\ apiKey \in {NULL, <<>>}
      /\ req[r].pc = "fin"
      /\ req[r].respuesta.tipo = "zip"
      /\ Len(req[r].componentes) = 1
      /\ req[r].componentes[1].cantidad_unidades = 0

EsFallback(c) ==
    /\ Len(c) = 1
    /\ c[1].nombre = <<"M","u","r","o"," ","B","a","s","e"," ","(","F","a","l","l","b","a","c","k",")">>
    /\ c[1].cantidad_unidades = 1

\* the upload call was made and returned
SubidaHecha(fr) == fr.llamadas.upload = 1 /\ fr.ia_falla # "upload"

\* C6: with a credential, the adapter never aborts the request: its try
\* block ends in the finally block, and the finally block returns to the
\* vector emission with the pending value unchanged, whether the deletion
\* succeeded or not; when a step raised, that value is the single fallback
\* component (quantity 1); the remote deletion is called exactly once when
\* the upload returned and not at all otherwise.
C6_FallbackYBorrado ==
    [][\A r \in Hilos :
         (apiKey # NULL /\ apiKey # <<>>) =>
           /\ (req[r].pc = "analizar" /\ req'[r].pc # "analizar" =>
                 /\ req'[r].pc = "ia_finally"
                 /\ req'[r].llamadas.delete = 0
                 /\ (req'[r].ia_falla # "ninguna" => EsFallback(req'[r].retorno))
                 /\ (req'[r].ia_falla = "ninguna" => req'[r].retorno = entrada[r].bom))
           /\ (req[r].pc = "ia_finally" /\ req'[r].pc # "ia_finally" =>
                 /\ req'[r].pc = "planos"
                 /\ req'[r].componentes = req[r].retorno
                 /\ (req[r].ia_falla # "ninguna" => EsFallback(req'[r].componentes))
                 /\ req'[r].llamadas.delete = IF SubidaHecha(req[r]) THEN 1 ELSE 0)]_vars

\* C6 witness: the generate call raised after a successful upload; the
\* deletion was attempted once and the fallback reached the vector emission
C6_Witness ==
    \E r \in Hilos :
      /\ apiKey = <<"k">>
      /\ req[r].pc = "planos"
      /\ req[r].llamadas = [upload |-> 1, generate |-> 1, delete |-> 1]
      /\ EsFallback(req[r].componentes)
      /\ ~req[r].limpio

\* C7: for the component the loop has just emitted, the vector file and the
\* raster preview carry the same shape class, which is IRREGULAR exactly
\* when the descriptor is not null and its trimmed length exceeds 10, and
\* the same width and height, 10 drawing units per cm of the first two
\* dimensions.
C7_MismaClasificacion ==
    \A r \in Hilos :
      (req[r].pc \in {"svg", "word"} /\ req[r].i > 1 /\ req[r].i <= Len(req[r].componentes) + 1) =>
        LET k == req[r].i - 1
            c == req[r].componentes[k]
            d == c.svg_path_d
            s == disk[req[r].svg_files[k]]
            p == disk[req[r].temp_png_files[k]]
        IN /\ s.forma = p.forma
           /\ (s.forma = "IRREGULAR") <=> (d # NULL /\ Len(StripChars(d, Whitespace)) > 10)
           /\ s.w = p.w /\ s.w = 10 * c.dimensiones_cm[1]
           /\ s.h = p.h /\ s.h = 10 * c.dimensiones_cm[2]

\* C7 witness: a descriptor longer than 10 characters that trims to at most
\* 10 has been emitted as a rectangle by both emitters
C7_Witness ==
    \E r \in Hilos :
      /\ req[r].pc = "word"
      /\ Len(req[r].componentes) = 1
      /\ req[r].componentes[1].svg_path_d # NULL
      /\ Len(req[r].componentes[1].svg_path_d) > 10
      /\ disk[req[r].svg_files[1]].forma = "RECTANGULAR"
      /\ disk[req[r].temp_png_files[1]].forma = "RECTANGULAR"

\* C8: the archive of a successful request over a BOM of N components has
\* N + 2 entries: the manual, the render, and per component one entry under
\* Planos_Corte/ with a name of its own that holds that component's drawing.
C8_UnPlanoPorPieza ==
    \A r \in Hilos :
      (req[r].pc \in Etapas_Limpieza \cup {"fin"} /\ req[r].respuesta.tipo = "zip") =>
        LET n == Len(req[r].componentes)
            z == req[r].zip
        IN /\ Len(z) = n + 2
           /\ z[1].arc = ManualArc
           /\ z[2].arc = RenderArc
           /\ \A k \in 1..n :
                /\ z[k + 2].arc[1] = "Planos_Corte/"
                /\ z[k + 2].contenido.nombre = req[r].componentes[k].nombre
                /\ \A j \in 1..n : j # k => z[j + 2].arc # z[k + 2].arc

\* the files of its own that an in-flight request no longer finds on disk
Perdidos(fr) ==
    {f \in Rango(fr.svg_files) \cup Rango(fr.temp_png_files) : ~Exists(f)}

\* C9: a request between its first write and its packaging finds one of its
\* vector or raster files missing only after another request, re-creating
\* outputs/planos_svg or running its cleanup, removed it.
C9_SoloOtroBorra ==
    \A r \in Hilos :
      (req[r].pc \in EnVuelo /\ Perdidos(req[r]) # {}) => req[r].victima

\* C9 witness: with no fault injected into either request, a request wrote
\* every vector and raster file, the other request removed one, and the
\* packaging failed
C9_Witness ==
    \E r \in Hilos :
      /\ req[r].pc = "limpiar"
      /\ \A q \in Hilos : req[q].limpio
      /\ req[r].victima
      /\ req[r].respuesta.tipo = "json"
      /\ req[r].componentes # <<>>
      /\ Len(req[r].svg_files) = Len(req[r].componentes)
      /\ Len(req[r].temp_png_files) = Len(req[r].componentes)
      /\ req[r].doc_path # NULL

\* C10: in a sequence of requests into which the environment injects no
\* fault, whenever a request is about to write its first raster preview the
\* directory outputs/temp_images exists.
C10_TempExiste ==
    \A r \in Hilos :
      (/\ req[r].pc = "png"
       /\ req[r].i = 1
       /\ req[r].limpio
       /\ (anterior = <<>> \/ anterior[1].limpio)) => TEMP_FOLDER \in dirs

====
